---- MODULE Spec2Model ----
(***************************************************************************)
(* A model of src/app.py: the script splitter, the render loop (speech     *)
(* synthesis, speed change, frame composition), the video assembler and    *)
(* the subtitle writer.                                                    *)
(*                                                                         *)
(* A text (Python str) is a sequence of one-character strings.  A path is  *)
(* a sequence of tokens: directory, "/", stem parts, "." and extension.    *)
(* A duration is a whole number of audio frames at FrameRate frames per    *)
(* second (pydub: duration_seconds = frame_count / frame_rate).            *)
(***************************************************************************)
EXTENDS Integers, Sequences, FiniteSets, TLC

VARIABLES
    pc,           \* position of the Streamlit script run
    script,       \* st.text_area value
    speed,        \* settings.speed, in steps of 1/SpeedDenom
    gen_srt,      \* the "Ondertitels (SRT) genereren" checkbox
    uploaded_bgs, \* uploaded backgrounds: for each, whether PIL can open it
    logo,         \* uploaded logo: "none", "ok" or "bad" (PIL cannot open it)
    uuid,         \* the next fresh uuid4
    bg_paths,     \* the saved uploaded backgrounds, in upload order
    logo_path,    \* the saved logo, or NoPath
    first,        \* TTS test button: the block handed to tts_to_mp3
    blocks,       \* render: split_script(script)
    i,            \* render loop: index of the next block (0-based)
    scenes,       \* render: the Scene list
    tts_log,      \* history: the calls of tts_to_mp3 of this run
    cv_calls,     \* history: number of calls of create_video
    out_path,     \* what create_video returned, or NoPath
    bg_files,     \* files tmp/bg_*.png
    audio_files,  \* files tmp/tts_*.mp3 and tmp/tts_speed_*.mp3
    frame_files,  \* files tmp/frame_*.png
    logo_files,   \* files tmp/logo_*.png
    video_files,  \* files output/text2video_*.mp4
    srt_files     \* files output/*.srt

config == <<script, speed, gen_srt, uploaded_bgs, logo>>
files == <<bg_files, audio_files, frame_files, logo_files, video_files, srt_files>>
run == <<uuid, bg_paths, logo_path, first, blocks, i, scenes, tts_log, cv_calls, out_path>>
vars == <<pc, config, run, files>>

None == <<"None">>
NoPath == <<>>

(***************************************************************************)
(* Bounds of the model.                                                    *)
(***************************************************************************)
MaxLen == 5          \* longest script of the exhaustive script set

(***************************************************************************)
(* Python str operations, as the code uses them.                           *)
(***************************************************************************)
NL == "\n"
NLNL == <<NL, NL>>

\* the characters str.strip() and str.split() treat as whitespace
IsSpace(c) == c \in {" ", NL}

RECURSIVE lstrip(_)
lstrip(s) ==
    IF s = <<>> THEN s
    ELSE IF IsSpace(Head(s)) THEN lstrip(Tail(s)) ELSE s

RECURSIVE rstrip(_)
rstrip(s) ==
    IF s = <<>> THEN s
    ELSE IF IsSpace(s[Len(s)]) THEN rstrip(SubSeq(s, 1, Len(s) - 1)) ELSE s

\* str.strip()
strip(s) == rstrip(lstrip(s))

startswith(s, sep) == Len(s) >= Len(sep) /\ SubSeq(s, 1, Len(sep)) = sep

\* str.split(sep): cut at each leftmost non-overlapping occurrence of sep
RECURSIVE split_acc(_, _, _)
split_acc(s, sep, cur) ==
    IF s = <<>> THEN <<cur>>
    ELSE IF startswith(s, sep)
         THEN <<cur>> \o split_acc(SubSeq(s, Len(sep) + 1, Len(s)), sep, <<>>)
         ELSE split_acc(Tail(s), sep, Append(cur, Head(s)))

split(s, sep) == split_acc(s, sep, <<>>)

\* str.split() without argument: the maximal runs of non-whitespace
RECURSIVE split_ws_acc(_, _)
split_ws_acc(s, cur) ==
    IF s = <<>> THEN (IF cur = <<>> THEN <<>> ELSE <<cur>>)
    ELSE IF IsSpace(Head(s))
         THEN (IF cur = <<>> THEN <<>> ELSE <<cur>>) \o split_ws_acc(Tail(s), <<>>)
         ELSE split_ws_acc(Tail(s), Append(cur, Head(s)))

split_ws(s) == split_ws_acc(s, <<>>)

\* str.replace(old, new) for one-character old and new
replace(s, old, new) == [k \in 1..Len(s) |-> IF s[k] = old THEN new ELSE s[k]]

\* sep.join(parts)
RECURSIVE join(_, _)
join(sep, parts) ==
    IF parts = <<>> THEN <<>>
    ELSE IF Len(parts) = 1 THEN parts[1]
    ELSE parts[1] \o sep \o join(sep, Tail(parts))

(***************************************************************************)
(* split_script                                                            *)
(***************************************************************************)
WordBound == 18

\* a plausible slip: the pieces are filtered but not stripped
paragraph_blocks_unstripped(text) ==
    SelectSeq(split(text, NLNL), LAMBDA b : strip(b) # <<>>)

\* a plausible slip: the pieces are stripped but the empty ones are kept
paragraph_blocks_unfiltered(text) ==
    LET pieces == split(text, NLNL)
    IN  [k \in 1..Len(pieces) |-> strip(pieces[k])]

\* blocks = [b.strip() for b in text.split("\n\n") if b.strip()]
paragraph_blocks(text) ==
    LET pieces == split(text, NLNL)
        stripped == [k \in 1..Len(pieces) |-> strip(pieces[k])]
    IN  SelectSeq(stripped, LAMBDA b : b # <<>>)

\* ". ".join(buf) + "."
close_group(buf) == join(<<".", " ">>, buf) \o <<".">>

\* the for loop of the fallback, from part k on, and the final "if buf"
RECURSIVE sentence_loop(_, _, _, _)
sentence_loop(parts, k, buf, rough) ==
    IF k > Len(parts)
    THEN (IF buf # <<>> THEN Append(rough, close_group(buf)) ELSE rough)
    ELSE LET t == strip(parts[k]) IN
         IF t = <<>> THEN sentence_loop(parts, k + 1, buf, rough)
         ELSE LET buf2 == Append(buf, t) IN
              IF Len(split_ws(join(<<" ">>, buf2))) >= WordBound
              THEN sentence_loop(parts, k + 1, <<>>, Append(rough, close_group(buf2)))
              ELSE sentence_loop(parts, k + 1, buf2, rough)

\* the fallback of split_script: rough sentence grouping
sentence_groups(text) ==
    sentence_loop(split(replace(replace(text, "?", "."), "!", "."), <<".">>),
                  1, <<>>, <<>>)

split_script(text) ==
    LET blks == paragraph_blocks(text)
    IN  IF blks # <<>> THEN blks ELSE sentence_groups(text)

(***************************************************************************)
(* The scripts of the script-splitter specification: every text over Alphabet  *)
(* of at most MaxLen characters, and longer texts of three sentences of    *)
(* up to WordBound words each.                                             *)
(***************************************************************************)
Alphabet == {"a", " ", NL, ".", "?"}

RECURSIVE TextsUpTo(_)
TextsUpTo(n) ==
    IF n = 0 THEN {<<>>}
    ELSE LET shorter == TextsUpTo(n - 1)
         IN  shorter \cup {Append(t, c) : t \in {u \in shorter : Len(u) = n - 1},
                                          c \in Alphabet}

RECURSIVE Words(_)
Words(n) == IF n = 0 THEN <<>>
            ELSE IF n = 1 THEN <<"a">> ELSE <<"a", " ">> \o Words(n - 1)

Sentence(n, p) == IF n = 0 THEN <<>> ELSE Words(n) \o <<p>>

WordCounts == {0, WordBound \div 2, WordBound}
Gaps == {<<" ">>, NLNL, <<NL, NL, NL>>}

LongTexts ==
    {Sentence(n1, p) \o g1 \o Sentence(n2, p) \o g2 \o Sentence(n3, p) :
        n1 \in WordCounts, n2 \in WordCounts, n3 \in WordCounts,
        p \in {".", "?", "!"}, g1 \in Gaps, g2 \in Gaps}

ScriptTexts == TextsUpTo(MaxLen) \cup LongTexts

(***************************************************************************)
(* Paths (os.path) and uuid4.                                              *)
(***************************************************************************)
OUTPUT_DIR == "output"
TEMP_DIR == "tmp"

\* uuid.uuid4().hex: the n-th fresh value
hex(n) == ToString(n)

\* os.path.join(dir, name)
path_join(dir, name) == <<dir, "/">> \o name

RECURSIVE last_index(_, _)
last_index(p, tok) ==
    IF p = <<>> THEN 0
    ELSE IF p[Len(p)] = tok THEN Len(p)
    ELSE last_index(SubSeq(p, 1, Len(p) - 1), tok)

\* os.path.basename(p)
basename(p) == SubSeq(p, last_index(p, "/") + 1, Len(p))

\* os.path.splitext(name): (root, ext), cut at the last dot
splitext(name) ==
    LET d == last_index(name, ".")
    IN  IF d <= 1 THEN <<name, <<>>>>
        ELSE <<SubSeq(name, 1, d - 1), SubSeq(name, d, Len(name))>>

(***************************************************************************)
(* Audio: tts_to_mp3 and change_speed.                                     *)
(***************************************************************************)
FrameRate == 2000    \* frames per second of the synthesized audio
SpeedDenom == 20     \* the speed slider moves in steps of 0.05 = 1/20
SpeedMin == 14       \* slider minimum 0.7
SpeedMax == 30       \* slider maximum 1.5

\* the file at path p in the set fs of file records
file_at(fs, p) == CHOOSE f \in fs : f.path = p

\* AudioSegment.from_file(p).duration_seconds, in frames
duration_seconds(fs, p) == file_at(fs, p).frames

\* tts_to_mp3 when gTTS succeeds: the mp3 of n frames is saved and measured
tts_to_mp3(fs, u, n) ==
    LET mp3_path == path_join(TEMP_DIR, <<"tts_", hex(u), ".", "mp3">>)
    IN  [path |-> mp3_path, duration |-> n, uuid |-> u + 1,
         files |-> fs \cup {[path |-> mp3_path, frames |-> n]}]

\* abs(speed - 1.0) < 1e-3, for speed = sp / SpeedDenom
is_unit_speed(sp) ==
    LET diff == IF sp >= SpeedDenom THEN sp - SpeedDenom ELSE SpeedDenom - sp
    IN  diff * 1000 < SpeedDenom

\* a plausible slip: the length of the export is computed, not measured
change_speed_unmeasured(fs, u, input_path, sp, pad) ==
    LET n == duration_seconds(fs, input_path) IN
    IF is_unit_speed(sp)
    THEN [path |-> input_path, duration |-> n, uuid |-> u, files |-> fs]
    ELSE LET sped == (n * SpeedDenom) \div sp
             out_path_ == path_join(TEMP_DIR, <<"tts_speed_", hex(u), ".", "mp3">>)
         IN  [path |-> out_path_, duration |-> sped, uuid |-> u + 1,
              files |-> fs \cup {[path |-> out_path_, frames |-> sped + pad]}]

\* change_speed; pad is what the mp3 encoder adds to the exported audio
change_speed(fs, u, input_path, sp, pad) ==
    LET n == duration_seconds(fs, input_path) IN
    IF is_unit_speed(sp)
    THEN [path |-> input_path, duration |-> n, uuid |-> u, files |-> fs]
    ELSE LET new_frame_rate == (FrameRate * sp) \div SpeedDenom
             \* the same raw data played at new_frame_rate, resampled to FrameRate
             sped == (n * FrameRate) \div new_frame_rate
             out_path_ == path_join(TEMP_DIR, <<"tts_speed_", hex(u), ".", "mp3">>)
             exported == fs \cup {[path |-> out_path_, frames |-> sped + pad]}
         IN  [path |-> out_path_, duration |-> duration_seconds(exported, out_path_),
              uuid |-> u + 1, files |-> exported]

(***************************************************************************)
(* Frames: build_scene_image and save_pil_image.                           *)
(***************************************************************************)
Gradient == [kind |-> "gradient", upload |-> 0]

\* a plausible slip: an upload that cannot be opened is not replaced
build_scene_image_nofallback(text, bg_image_path) ==
    LET base == IF bg_image_path # NoPath
                THEN [kind |-> "upload",
                      upload |-> file_at(bg_files, bg_image_path).upload]
                ELSE Gradient
    IN  [base |-> base, text |-> text]

\* build_scene_image: the background the caption is drawn on, and the caption
build_scene_image(text, bg_image_path) ==
    LET base == IF bg_image_path # NoPath
                THEN LET f == file_at(bg_files, bg_image_path) IN
                     IF f.readable
                     THEN [kind |-> "upload", upload |-> f.upload]
                     ELSE Gradient         \* except Exception: make_gradient_bg
                ELSE Gradient
    IN  [base |-> base, text |-> text]

\* save_pil_image
save_pil_image(fs, u, img) ==
    LET path == path_join(TEMP_DIR, <<"frame_", hex(u), ".", "png">>)
    IN  [path |-> path, uuid |-> u + 1,
         files |-> fs \cup {[path |-> path, img |-> img]}]

(***************************************************************************)
(* Subtitles: srt_timestamp and write_srt_for_scenes.                      *)
(***************************************************************************)
\* int(round(seconds * 1000)) for seconds = n / FrameRate (round half to even)
round_ms(n) ==
    LET num == (n % FrameRate) * 1000
        q == (n \div FrameRate) * 1000 + num \div FrameRate
        r == num % FrameRate
    IN  IF 2 * r > FrameRate \/ (2 * r = FrameRate /\ q % 2 = 1) THEN q + 1 ELSE q

Digit(d) == <<"0", "1", "2", "3", "4", "5", "6", "7", "8", "9">>[d + 1]

\* str(n) for n >= 0
RECURSIVE decimal(_)
decimal(n) == IF n < 10 THEN <<Digit(n)>> ELSE Append(decimal(n \div 10), Digit(n % 10))

\* f"{n:0wd}"
RECURSIVE zero_pad(_, _)
zero_pad(str, w) == IF Len(str) >= w THEN str ELSE zero_pad(<<"0">> \o str, w)

\* a plausible slip: the hours are not taken off before the minutes
srt_timestamp_nohours(n) ==
    LET ms0 == round_ms(n)
        h == ms0 \div 3600000
        m == ms0 \div 60000
        ms2 == ms0 - m * 60000
        s == ms2 \div 1000
        ms3 == ms2 - s * 1000
    IN  zero_pad(decimal(h), 2) \o <<":">> \o zero_pad(decimal(m), 2) \o <<":">>
        \o zero_pad(decimal(s), 2) \o <<",">> \o zero_pad(decimal(ms3), 3)

srt_timestamp(n) ==
    LET ms0 == round_ms(n)
        h == ms0 \div 3600000
        ms1 == ms0 - h * 3600000
        m == ms1 \div 60000
        ms2 == ms1 - m * 60000
        s == ms2 \div 1000
        ms3 == ms2 - s * 1000
    IN  zero_pad(decimal(h), 2) \o <<":">> \o zero_pad(decimal(m), 2) \o <<":">>
        \o zero_pad(decimal(s), 2) \o <<",">> \o zero_pad(decimal(ms3), 3)

\* a plausible slip: the end of an entry is not offset by the time so far
RECURSIVE srt_loop_restart(_, _, _, _)
srt_loop_restart(scs, idx, t, lines) ==
    IF idx > Len(scs) THEN lines
    ELSE LET sc == scs[idx]
             entry == [index |-> decimal(idx),
                       start |-> srt_timestamp(t),
                       end |-> srt_timestamp(sc.duration),
                       text |-> replace(strip(sc.text), NL, " ")]
         IN  srt_loop_restart(scs, idx + 1, t + sc.duration, Append(lines, entry))

\* the for loop of write_srt_for_scenes from scene idx on, t the time so far
RECURSIVE srt_loop(_, _, _, _)
srt_loop(scs, idx, t, lines) ==
    IF idx > Len(scs) THEN lines
    ELSE LET sc == scs[idx]
             entry == [index |-> decimal(idx),
                       start |-> srt_timestamp(t),
                       end |-> srt_timestamp(t + sc.duration),
                       text |-> replace(strip(sc.text), NL, " ")]
         IN  srt_loop(scs, idx + 1, t + sc.duration, Append(lines, entry))

\* the entries write_srt_for_scenes writes to srt_path
write_srt_for_scenes(scs, srt_path) ==
    [path |-> srt_path, lines |-> srt_loop(scs, 1, 0, <<>>)]

(***************************************************************************)
(* create_video: the clips of the video.                                   *)
(***************************************************************************)
\* the logo overlay: rendered once when the logo file exists and opens
logo_overlay(lp) ==
    lp # NoPath /\ file_at(logo_files, lp).readable

\* a plausible slip: the fade-out test is off by one
RECURSIVE clip_loop_fadeall(_, _, _, _, _, _)
clip_loop_fadeall(scs, k, u, fs, overlay, clips) ==
    IF k > Len(scs) THEN [clips |-> clips, uuid |-> u, files |-> fs]
    ELSE LET sc == scs[k]
             saved == save_pil_image(fs, u, file_at(fs, sc.bg_image_path).img)
             clip == [frame |-> saved.path,
                      duration |-> sc.duration,
                      audio |-> sc.audio_path,
                      fadein |-> (k - 1 > 0),
                      fadeout |-> (k - 1 < Len(scs)),
                      logo |-> overlay]
         IN  clip_loop_fadeall(scs, k + 1, saved.uuid, saved.files, overlay,
                               Append(clips, clip))

\* the loop over the scenes from scene k (1-based; the code's i is k - 1)
RECURSIVE clip_loop(_, _, _, _, _, _)
clip_loop(scs, k, u, fs, overlay, clips) ==
    IF k > Len(scs) THEN [clips |-> clips, uuid |-> u, files |-> fs]
    ELSE LET sc == scs[k]
             saved == save_pil_image(fs, u, file_at(fs, sc.bg_image_path).img)
             clip == [frame |-> saved.path,
                      duration |-> sc.duration,
                      audio |-> sc.audio_path,
                      fadein |-> (k - 1 > 0),
                      fadeout |-> (k - 1 < Len(scs) - 1),
                      logo |-> overlay]
         IN  clip_loop(scs, k + 1, saved.uuid, saved.files, overlay,
                       Append(clips, clip))

(***************************************************************************)
(* The Streamlit script run.                                               *)
(***************************************************************************)
\* lines 366-380: the uploads are saved before any button is handled
RECURSIVE save_bgs(_, _, _, _)
save_bgs(ups, k, u, acc) ==
    IF k > Len(ups) THEN acc
    ELSE LET p == path_join(TEMP_DIR, <<"bg_", hex(u), ".", "png">>)
         IN  save_bgs(ups, k + 1, u + 1,
                      [paths |-> Append(acc.paths, p),
                       files |-> acc.files \cup
                           {[path |-> p, upload |-> k - 1, readable |-> ups[k]]}])

ProcessUploads ==
    LET saved == save_bgs(uploaded_bgs, 1, uuid, [paths |-> <<>>, files |-> bg_files])
        u == uuid + Len(uploaded_bgs)
        lp == path_join(TEMP_DIR, <<"logo_", hex(u), ".", "png">>)
    IN  /\ bg_paths' = saved.paths
        /\ bg_files' = saved.files
        /\ IF logo # "none"
           THEN /\ logo_path' = lp
                /\ logo_files' = logo_files \cup {[path |-> lp, readable |-> logo = "ok"]}
                /\ uuid' = u + 1
           ELSE /\ logo_path' = NoPath
                /\ logo_files' = logo_files
                /\ uuid' = u

\* the lengths gTTS may give the audio of a block, in frames
TtsFrames == {FrameRate, FrameRate \div 2 + 1}

\* lengths from half a millisecond to a hundred hours
LongFrames == {1, 3, FrameRate - 1, 60 * FrameRate - 1, 3600 * FrameRate,
               100 * 3600 * FrameRate - 1}
MaxTotalFrames == 200 * 3600 * FrameRate

RECURSIVE total_duration(_)
total_duration(scs) ==
    IF scs = <<>> THEN 0 ELSE scs[1].duration + total_duration(Tail(scs))

\* "Test één scene als audio (TTS)"
TestAudioButton ==
    /\ pc = "idle"
    /\ ProcessUploads
    /\ UNCHANGED <<config, blocks, i, scenes, cv_calls, out_path>>
    /\ UNCHANGED <<frame_files, video_files, srt_files>>
    /\ IF strip(script) = <<>>
       THEN /\ pc' = "warning"
            /\ first' = None
            /\ UNCHANGED <<tts_log, audio_files>>
       ELSE LET blks == split_script(script) IN
            IF blks = <<>>
            THEN /\ pc' = "IndexError"       \* split_script(script)[0]
                 /\ first' = None
                 /\ UNCHANGED <<tts_log, audio_files>>
            ELSE /\ first' = blks[1]
                 /\ \/ \E n \in TtsFrames :
                          LET tts == tts_to_mp3(audio_files, uuid', n) IN
                          /\ audio_files' = tts.files
                          /\ tts_log' = Append(tts_log,
                                 [block |-> 0, text |-> blks[1], ok |-> TRUE,
                                  path |-> tts.path, duration |-> tts.duration])
                          /\ pc' = "audio_played"
                    \/ /\ tts_log' = Append(tts_log,
                              [block |-> 0, text |-> blks[1], ok |-> FALSE,
                               path |-> NoPath, duration |-> 0])
                       /\ UNCHANGED audio_files
                       /\ pc' = "tts_error"

\* "Render video": the empty-script check and split_script
RenderButton ==
    /\ pc = "idle"
    /\ ProcessUploads
    /\ IF strip(script) = <<>>
       THEN /\ pc' = "stopped"
            /\ blocks' = <<>>
       ELSE /\ pc' = "loop"
            /\ blocks' = split_script(script)
    /\ UNCHANGED <<config, first, i, scenes, tts_log, cv_calls, out_path>>
    /\ UNCHANGED <<audio_files, frame_files, video_files, srt_files>>

\* one iteration of the render loop in which tts_to_mp3 succeeds, the audio
\* being n frames long and the encoder padding a sped-up export by pad frames
RenderSceneWith(n, pad) ==
    /\ pc = "loop"
    /\ i < Len(blocks)
    /\ LET blk == blocks[i + 1]
              tts == tts_to_mp3(audio_files, uuid, n)
              cs == change_speed(tts.files, tts.uuid, tts.path, speed, pad)
              bg == IF i < Len(bg_paths) THEN bg_paths[i + 1] ELSE NoPath
              frame_img == build_scene_image(blk, bg)
              saved == save_pil_image(frame_files, cs.uuid, frame_img)
          IN  /\ tts_log' = Append(tts_log,
                     [block |-> i, text |-> blk, ok |-> TRUE,
                      path |-> tts.path, duration |-> tts.duration])
              /\ audio_files' = cs.files
              /\ frame_files' = saved.files
              /\ uuid' = saved.uuid
              /\ scenes' = Append(scenes,
                     [text |-> blk, bg_image_path |-> saved.path,
                      audio_path |-> cs.path, duration |-> cs.duration])
    /\ i' = i + 1
    /\ pc' = "loop"
    /\ UNCHANGED <<config, bg_paths, logo_path, first, blocks, cv_calls, out_path>>
    /\ UNCHANGED <<bg_files, logo_files, video_files, srt_files>>

RenderScene == \E n \in TtsFrames, pad \in {0, 1} : RenderSceneWith(n, pad)

\* the same iteration for audio of any length; the counters stay in range
RenderSceneLong ==
    \E n \in LongFrames :
        /\ n <= MaxTotalFrames - total_duration(scenes)
        /\ RenderSceneWith(n, 0)

\* an iteration in which tts_to_mp3 succeeds and change_speed (or drawing or
\* saving the frame) raises: nothing catches it and the script run ends
RenderSceneRaises ==
    /\ pc = "loop"
    /\ i < Len(blocks)
    /\ \E n \in TtsFrames :
          LET tts == tts_to_mp3(audio_files, uuid, n)
          IN  /\ tts_log' = Append(tts_log,
                     [block |-> i, text |-> blocks[i + 1], ok |-> TRUE,
                      path |-> tts.path, duration |-> tts.duration])
              /\ audio_files' = tts.files
              /\ uuid' = tts.uuid
    /\ pc' = "crashed"
    /\ UNCHANGED <<config, bg_paths, logo_path, first, blocks, i, scenes,
                   cv_calls, out_path>>
    /\ UNCHANGED <<bg_files, frame_files, logo_files, video_files, srt_files>>

\* a plausible slip: the error is shown and the loop goes on
RenderSceneTtsSkipped ==
    /\ pc = "loop"
    /\ i < Len(blocks)
    /\ tts_log' = Append(tts_log,
           [block |-> i, text |-> blocks[i + 1], ok |-> FALSE,
            path |-> NoPath, duration |-> 0])
    /\ i' = i + 1
    /\ pc' = "loop"
    /\ UNCHANGED <<config, uuid, bg_paths, logo_path, first, blocks, scenes,
                   cv_calls, out_path, files>>

\* an iteration in which tts_to_mp3 raises: st.error, st.stop
RenderSceneTtsFails ==
    /\ pc = "loop"
    /\ i < Len(blocks)
    /\ tts_log' = Append(tts_log,
           [block |-> i, text |-> blocks[i + 1], ok |-> FALSE,
            path |-> NoPath, duration |-> 0])
    /\ pc' = "stopped"
    /\ UNCHANGED <<config, uuid, bg_paths, logo_path, first, blocks, i, scenes,
                   cv_calls, out_path, files>>

\* a plausible slip: the subtitles are written whatever the checkbox says
after_video_always == "srt"

\* after st.success, st.video, st.write: if gen_srt
after_video == IF gen_srt THEN "srt" ELSE "done"

\* after the loop: create_video returns the path of the written video
CreateVideo ==
    /\ pc = "loop"
    /\ i = Len(blocks)
    /\ cv_calls' = cv_calls + 1
    /\ LET \* the overlay is saved to its own file before the loop
           u0 == IF logo_overlay(logo_path) THEN uuid + 1 ELSE uuid
           overlay_file == IF logo_overlay(logo_path)
                           THEN {[path |-> path_join(TEMP_DIR,
                                              <<"logo_", hex(uuid), ".", "png">>),
                                  readable |-> TRUE]}
                           ELSE {}
           built == clip_loop(scenes, 1, u0, frame_files, logo_overlay(logo_path), <<>>)
           video == path_join(OUTPUT_DIR, <<"text2video_", hex(built.uuid), ".", "mp4">>)
       IN  /\ frame_files' = built.files
           /\ logo_files' = logo_files \cup overlay_file
           /\ uuid' = built.uuid + 2           \* the video and its temp audio file
           /\ video_files' = video_files \cup {[path |-> video, clips |-> built.clips]}
           /\ out_path' = video
    /\ pc' = after_video
    /\ UNCHANGED <<config, bg_paths, logo_path, first, blocks, i, scenes, tts_log>>
    /\ UNCHANGED <<bg_files, audio_files, srt_files>>

\* create_video raises (PIL, moviepy or the encoder): st.exception
CreateVideoFails ==
    /\ pc = "loop"
    /\ i = Len(blocks)
    /\ cv_calls' = cv_calls + 1
    /\ pc' = "exception"
    /\ UNCHANGED <<config, uuid, bg_paths, logo_path, first, blocks, i, scenes,
                   tts_log, out_path, files>>

\* if gen_srt: the subtitle file beside the video
WriteSrt ==
    /\ pc = "srt"
    /\ LET base == splitext(basename(out_path))[1]
           srt_path == path_join(OUTPUT_DIR, base \o <<".", "srt">>)
       IN  srt_files' = srt_files \cup {write_srt_for_scenes(scenes, srt_path)}
    /\ pc' = "done"
    /\ UNCHANGED <<config, run>>
    /\ UNCHANGED <<bg_files, audio_files, frame_files, logo_files, video_files>>

\* the subtitle file cannot be written: st.exception
WriteSrtFails ==
    /\ pc = "srt"
    /\ pc' = "exception"
    /\ UNCHANGED <<config, run, files>>

(***************************************************************************)
(* Specifications.                                                         *)
(***************************************************************************)
MaxScenes == 3       \* most paragraphs of a script of the render specification
MaxBgs == 2          \* most uploaded backgrounds

RECURSIVE SeqsUpTo(_, _)
SeqsUpTo(S, n) ==
    IF n = 0 THEN {<<>>}
    ELSE LET shorter == SeqsUpTo(S, n - 1)
         IN  shorter \cup {Append(q, x) : q \in {r \in shorter : Len(r) = n - 1},
                                          x \in S}

Fresh ==
    /\ pc = "idle"
    /\ uuid = 0
    /\ bg_paths = <<>>
    /\ logo_path = NoPath
    /\ first = None
    /\ blocks = <<>>
    /\ i = 0
    /\ scenes = <<>>
    /\ tts_log = <<>>
    /\ cv_calls = 0
    /\ out_path = NoPath
    /\ bg_files = {}
    /\ audio_files = {}
    /\ frame_files = {}
    /\ logo_files = {}
    /\ video_files = {}
    /\ srt_files = {}

\* the render pipeline
Paragraph(k) == [j \in 1..k |-> "a"] \o <<NL, "b", " ">>
RenderScripts == {join(NLNL, [k \in 1..n |-> Paragraph(k)]) : n \in 0..MaxScenes}
Speeds == {SpeedMin, SpeedDenom, SpeedMax}

Init ==
    /\ Fresh
    /\ script \in RenderScripts
    /\ speed \in Speeds
    /\ gen_srt \in BOOLEAN
    /\ uploaded_bgs \in SeqsUpTo(BOOLEAN, MaxBgs)
    /\ logo \in {"none", "ok", "bad"}

Next ==
    \/ RenderButton
    \/ RenderScene
    \/ RenderSceneTtsFails
    \/ RenderSceneRaises
    \/ CreateVideo
    \/ CreateVideoFails
    \/ WriteSrt
    \/ WriteSrtFails

Spec == Init /\ [][Next]_vars

\* the render pipeline with subtitles, for audio of any length
InitSrt ==
    /\ Fresh
    /\ script \in RenderScripts
    /\ speed = SpeedDenom
    /\ gen_srt = TRUE
    /\ uploaded_bgs = <<>>
    /\ logo = "none"

NextSrt == RenderButton \/ RenderSceneLong \/ CreateVideo \/ WriteSrt

SpecSrt == InitSrt /\ [][NextSrt]_vars

\* the script splitter behind the two buttons
InitSplit ==
    /\ Fresh
    /\ script \in ScriptTexts
    /\ speed = SpeedDenom
    /\ gen_srt = TRUE
    /\ uploaded_bgs = <<>>
    /\ logo = "none"

NextSplit == TestAudioButton \/ RenderButton

SpecSplit == InitSplit /\ [][NextSplit]_vars

(***************************************************************************)
(* Properties of the script splitter (checked under SpecSplit).            *)
(***************************************************************************)
contains(s, sep) ==
    \E k \in 1..(Len(s) - Len(sep) + 1) : SubSeq(s, k, k + Len(sep) - 1) = sep

IsStripped(b) == b # <<>> /\ ~IsSpace(b[1]) /\ ~IsSpace(b[Len(b)])

\* text is bs[1], bs[2], ... in this order with only whitespace around them,
\* and a blank line in the whitespace between two consecutive ones
RECURSIVE LaidOut(_, _, _)
LaidOut(text, bs, isFirst) ==
    LET rest == lstrip(text)
        gap == SubSeq(text, 1, Len(text) - Len(rest))
    IN  IF bs = <<>> THEN rest = <<>>
        ELSE /\ isFirst \/ contains(gap, NLNL)
             /\ startswith(rest, bs[1])
             /\ LaidOut(SubSeq(rest, Len(bs[1]) + 1, Len(rest)), Tail(bs), FALSE)

SplitDone == pc = "loop"

C2_SentenceFallback ==
    (SplitDone /\ ~contains(script, NLNL) /\ Len(sentence_groups(script)) > 1)
        => (blocks = sentence_groups(script) /\ Len(blocks) > 1)

\* C10: for a script with a non-whitespace character split_script returns a
\* non-empty list of non-empty blocks without leading or trailing whitespace,
\* so the audio test finds a first block and a render that passed the
\* empty-script check has at least one scene.
C10_BlocksNonEmpty ==
    /\ pc # "IndexError"
    /\ pc \in {"audio_played", "tts_error"} => IsStripped(first)
    /\ SplitDone => (blocks # <<>> /\ \A k \in 1..Len(blocks) : IsStripped(blocks[k]))

C10_Witness ==
    /\ pc = "audio_played"
    /\ contains(script, NLNL)
    /\ first # script
    /\ IsSpace(script[1])

(***************************************************************************)
(* Properties of the subtitle writer (checked under SpecSrt).              *)
(***************************************************************************)
DigitValue(c) == CHOOSE d \in 0..9 : Digit(d) = c

\* the number a string of decimal digits denotes
RECURSIVE value(_)
value(str) ==
    IF str = <<>> THEN 0
    ELSE value(SubSeq(str, 1, Len(str) - 1)) * 10 + DigitValue(str[Len(str)])

\* the four fields of a timestamp hh:mm:ss,mmm, as written
Fields(stamp) ==
    LET hms == split(stamp, <<":">>)
        sms == split(hms[3], <<",">>)
    IN  [h |-> hms[1], m |-> hms[2], s |-> sms[1], ms |-> sms[2]]

\* the milliseconds a written timestamp denotes
StampMs(stamp) ==
    LET F == Fields(stamp)
    IN  value(F.h) * 3600000 + value(F.m) * 60000 + value(F.s) * 1000 + value(F.ms)

\* the durations of the first k scenes, summed
SumTo(scs, k) == total_duration(SubSeq(scs, 1, k))

HundredHoursMs == 100 * 3600000

\* C3: write_srt_for_scenes emits one entry per scene, in scene order, with
\* indices 1..n; entry k starts at the timestamp of the summed durations of
\* scenes 1..k-1 and ends at the timestamp of that sum plus the duration of
\* scene k, so entry k+1 starts exactly where entry k ends.
C3_SrtEntriesContiguous ==
    \A f \in srt_files :
        /\ Len(f.lines) = Len(scenes)
        /\ \A k \in 1..Len(f.lines) :
              /\ value(f.lines[k].index) = k
              /\ f.lines[k].start = srt_timestamp(SumTo(scenes, k - 1))
              /\ f.lines[k].end =
                     srt_timestamp(SumTo(scenes, k - 1) + scenes[k].duration)
              /\ StampMs(f.lines[k].start) <= StampMs(f.lines[k].end)
              /\ k < Len(f.lines) => f.lines[k + 1].start = f.lines[k].end

\* three entries, the rounded sum differing from the sum of the rounded parts
C3_Witness ==
    \E f \in srt_files :
        /\ Len(f.lines) = 3
        /\ round_ms(SumTo(scenes, 2)) # round_ms(scenes[1].duration)
                                          + round_ms(scenes[2].duration)
        /\ f.lines[3].start # f.lines[3].end

\* the whole milliseconds of the start (e = 0) or end (e = 1) of entry k
EntryMs(k, e) == round_ms(SumTo(scenes, k - 1 + e))

StampDecomposes(stamp, T) ==
    LET F == Fields(stamp) IN
    /\ Len(F.m) = 2 /\ value(F.m) <= 59
    /\ Len(F.s) = 2 /\ value(F.s) <= 59
    /\ Len(F.ms) = 3 /\ value(F.ms) <= 999
    /\ value(F.h) * 3600000 + value(F.m) * 60000 + value(F.s) * 1000 + value(F.ms) = T
    /\ IF T < HundredHoursMs THEN Len(F.h) = 2 ELSE Len(F.h) > 2

\* C7: srt_timestamp writes a time of T whole milliseconds as fields h, m, s,
\* ms with m <= 59, s <= 59, ms <= 999 and h*3600000 + m*60000 + s*1000 + ms
\* = T (so nothing is lost and the order of times is kept); the hours field
\* is not capped and has more than two digits from 100 hours on.
C7_TimestampFields ==
    \A f \in srt_files :
        \A k \in 1..Len(f.lines) :
            /\ StampDecomposes(f.lines[k].start, EntryMs(k, 0))
            /\ StampDecomposes(f.lines[k].end, EntryMs(k, 1))
            /\ \A j \in 1..Len(f.lines) :
                  EntryMs(j, 1) < EntryMs(k, 1) =>
                      /\ f.lines[j].end # f.lines[k].end
                      /\ StampMs(f.lines[j].end) < StampMs(f.lines[k].end)

\* a time past 100 hours whose minutes, seconds and milliseconds are not zero
C7_Witness ==
    \E f \in srt_files :
        \E k \in 1..Len(f.lines) :
            LET F == Fields(f.lines[k].end) IN
            /\ EntryMs(k, 1) >= HundredHoursMs
            /\ Len(F.h) = 3
            /\ value(F.m) > 0 /\ value(F.s) > 0 /\ value(F.ms) > 0

(***************************************************************************)
(* Properties of the render pipeline (checked under Spec).                 *)
(***************************************************************************)
\* the speed is within 0.001 of 1.0
NearOne(sp) == 1000 * (IF sp >= SpeedDenom THEN sp - SpeedDenom ELSE SpeedDenom - sp)
                   < SpeedDenom

\* the durations of the first k clips of a video, summed
RECURSIVE ClipSum(_, _)
ClipSum(clips, k) == IF k = 0 THEN 0 ELSE ClipSum(clips, k - 1) + clips[k].duration

IsSpedFile(p) == Len(p) > 2 /\ p[3] = "tts_speed_"

\* C4: every scene's duration is the audio length change_speed returned for
\* the scene's own audio (the TTS file and its duration when the speed is
\* within 0.001 of 1.0, else the newly exported file and its measured
\* length), and the clip and the subtitle entry of the scene both use it.
C4_SceneDuration ==
    /\ \A k \in 1..Len(scenes) :
          LET sc == scenes[k]
              tts == tts_log[k]
          IN  /\ tts.ok /\ tts.block = k - 1 /\ tts.text = sc.text
              /\ \E a \in audio_files : a.path = sc.audio_path /\ a.frames = sc.duration
              /\ IF NearOne(speed)
                 THEN sc.audio_path = tts.path /\ sc.duration = tts.duration
                 ELSE /\ IsSpedFile(sc.audio_path)
                      /\ \A j \in 1..Len(scenes) :
                            j # k => scenes[j].audio_path # sc.audio_path
    /\ \A v \in video_files :
          /\ Len(v.clips) = Len(scenes)
          /\ \A k \in 1..Len(scenes) :
                /\ v.clips[k].duration = scenes[k].duration
                /\ v.clips[k].audio = scenes[k].audio_path
          /\ \A f \in srt_files :
                /\ Len(f.lines) = Len(scenes)
                /\ \A k \in 1..Len(scenes) :
                      /\ f.lines[k].start = srt_timestamp(ClipSum(v.clips, k - 1))
                      /\ f.lines[k].end = srt_timestamp(ClipSum(v.clips, k))

\* a subtitled video of sped-up scenes of different lengths, one of them
\* longer than the resampling alone makes it
C4_Witness ==
    /\ srt_files # {}
    /\ ~NearOne(speed)
    /\ Len(scenes) = 3
    /\ scenes[1].duration # scenes[2].duration
    /\ \E k \in 1..3 : scenes[k].duration * speed > tts_log[k].duration * SpeedDenom

\* C5: speech synthesis is invoked at most once per block, in block order,
\* and when it fails for a block the run stops there: no later block is
\* synthesized, create_video is not called, no video or subtitle is written.
C5_NoRetryStopOnFailure ==
    /\ Len(tts_log) <= Len(blocks)
    /\ \A j \in 1..Len(tts_log) :
          /\ tts_log[j].block = j - 1
          /\ tts_log[j].text = blocks[j]
          /\ ~tts_log[j].ok =>
                /\ j = Len(tts_log)
                /\ pc = "stopped"
                /\ Len(scenes) = j - 1
                /\ cv_calls = 0
                /\ video_files = {} /\ srt_files = {} /\ out_path = NoPath

\* synthesis failed at the second of three blocks
C5_Witness ==
    /\ pc = "stopped"
    /\ Len(blocks) = 3
    /\ Len(tts_log) = 2
    /\ tts_log[1].ok /\ ~tts_log[2].ok

\* the background scene k (1-based) was composed on
SceneBase(k) ==
    (CHOOSE f \in frame_files : f.path = scenes[k].bg_image_path).img.base

LoopDone == cv_calls > 0     \* the loop ended and create_video was called

SceneTexts ==
    /\ Len(scenes) <= Len(blocks)
    /\ LoopDone => Len(scenes) = Len(blocks)
    /\ \A k \in 1..Len(scenes) :
          /\ scenes[k].text = blocks[k]
          /\ (CHOOSE f \in frame_files : f.path = scenes[k].bg_image_path).img.text
                 = blocks[k]

C8_Fades ==
    \A v \in video_files :
        /\ Len(v.clips) = Len(scenes)
        /\ \A k \in 1..Len(v.clips) :
              /\ v.clips[k].fadein <=> (k > 1)
              /\ v.clips[k].fadeout <=> (k < Len(v.clips))
              /\ v.clips[k].audio = scenes[k].audio_path
              /\ (CHOOSE f \in frame_files : f.path = v.clips[k].frame).img
                     = (CHOOSE f \in frame_files : f.path = scenes[k].bg_image_path).img

\* a video of three clips: a first, an interior and a last one
C8_Witness ==
    \E v \in video_files :
        /\ Len(v.clips) = 3
        /\ ~v.clips[1].fadein /\ v.clips[2].fadein /\ v.clips[2].fadeout
        /\ ~v.clips[3].fadeout

\* the subtitle files there are, and the video they belong to
SrtBesideVideo ==
    /\ (cv_calls > 0 /\ out_path = NoPath) => srt_files = {}
    /\ \A f \in srt_files :
          /\ gen_srt
          /\ cv_calls = 1
          /\ out_path # NoPath
          /\ \E v \in video_files :
                /\ v.path = out_path
                /\ f.path # v.path
                /\ f.path[1] = OUTPUT_DIR
                /\ splitext(basename(f.path))[1] = splitext(basename(v.path))[1]
                /\ splitext(basename(v.path))[2] = <<".", "mp4">>
                /\ splitext(basename(f.path))[2] = <<".", "srt">>

\* C9: a subtitle file is written only with subtitle generation enabled and
\* only after create_video has returned; a failed create_video leaves no
\* subtitle file; the subtitle file lies beside the video, with the video's
\* base name and the extension .srt.
C9_SrtFollowsVideo ==
    /\ []SrtBesideVideo
    /\ [][srt_files' # srt_files =>
              /\ gen_srt
              /\ out_path # NoPath /\ video_files # {}
              /\ video_files' = video_files /\ cv_calls' = cv_calls]_vars

C9_Witness ==
    /\ pc = "done"
    /\ gen_srt
    /\ \E f \in srt_files : Len(f.lines) = 2

====
